---- MODULE Spec2Model ----
(* A model of the ledger engine of multisig-blockchain-rust (src/lib.rs):   *)
(* typed transactions, block hashing and proof-of-work mining, the pending  *)
(* pool, the balance map, the advisory wallet registry and chain            *)
(* verification.                                                            *)
(*                                                                          *)
(* Modelling conventions                                                    *)
(*  - A hex digest is a sequence <<hi, lo, data>>: two leading hex digits   *)
(*    produced by a deterministic mixing function of the hashed fields,     *)
(*    followed by the hashed data itself, which stands for the remaining    *)
(*    digits of a collision-free digest (SHA-256 is taken to be injective). *)
(*    The literal string "0" is the one-digit sequence <<0>>.               *)
(*  - f64 amounts and balances are integers (the range in which f64         *)
(*    arithmetic is exact); DateTime<Utc> values are integers.              *)
(*  - Utc::now() reads the variable now, which Tick advances.               *)
(*  - An Err(String) is the tuple of the message's kind and its arguments.  *)
(*  - last records the most recent call that takes the Ledger by mutable    *)
(*    reference (new, add_transaction, mine_pending_transactions,           *)
(*    create_multisig_wallet) and the value it returned.                    *)
EXTENDS Integers, Sequences, FiniteSets

VARIABLES chain, difficulty, pending_transactions, balances, multisig_wallets,
          now, last

vars == <<chain, difficulty, pending_transactions, balances, multisig_wallets,
          now, last>>

(* ------------------------------ bounds ---------------------------------- *)

\* Transactions accepted over the life of one Ledger (mined or pending).
MaxTxs == 3
\* Last value of the clock.
MaxTime == 1
\* Largest amount of a submitted transaction.
MaxAmount == 1

(* --------------------------- input domains ------------------------------ *)

GENESIS == "genesis"

\* (from, to) pairs of the submitted transactions
Transfers == {<<GENESIS, "Alice">>, <<"Alice", "Bob">>}
Addresses == {GENESIS, "Alice", "Bob"}
Amounts == 1..MaxAmount
Times == 0..MaxTime
Difficulties == {0, 1}
RequiredChoices == {2}
SignatureLists == {<<"Mallory">>, <<"Mallory", "Mallory">>}
WalletIds == {"vault"}
WalletSigners == {<<"Mallory">>, <<"Alice", "Bob">>}
TxNonces == {1}

OK == <<"Ok">>

(* --------------------------- TransactionType ---------------------------- *)

Standard(from, to, amount) ==
    [kind |-> "Standard", from |-> from, to |-> to, amount |-> amount]

MultiSig(from, to, amount, required_signatures, signatures) ==
    [kind |-> "MultiSig", from |-> from, to |-> to, amount |-> amount,
     required_signatures |-> required_signatures, signatures |-> signatures]

TimeLocked(from, to, amount, unlock_time) ==
    [kind |-> "TimeLocked", from |-> from, to |-> to, amount |-> amount,
     unlock_time |-> unlock_time]

TransactionTypes ==
    {Standard(w[1], w[2], a) : w \in Transfers, a \in Amounts}
    \cup {MultiSig(w[1], w[2], a, r, s) :
            w \in Transfers, a \in Amounts,
            r \in RequiredChoices, s \in SignatureLists}
    \cup {TimeLocked(w[1], w[2], a, u) :
            w \in Transfers, a \in Amounts, u \in Times}

(* ------------------------------- digest --------------------------------- *)

\* Sha256 + hex::encode: two mixed leading digits, then the injective rest.
Digest(seed, data) ==
    LET v == seed % 256 IN <<v \div 16, v % 16, data>>

\* The first two hex digits of a string, as a number (0 for a shorter string).
Lead(h) == IF Len(h) >= 2 THEN 16 * h[1] + h[2] ELSE 0

\* str::starts_with("0".repeat(n))
StartsWithZeros(h, n) ==
    /\ Len(h) >= n
    /\ \A i \in 1..n : h[i] = 0

KindNum(tt) ==
    CASE tt.kind = "Standard" -> 1
      [] tt.kind = "MultiSig" -> 2 + tt.required_signatures + 3 * Len(tt.signatures)
      [] tt.kind = "TimeLocked" -> 5 + 7 * tt.unlock_time

TypeNum(tt) ==
    KindNum(tt) + 11 * tt.amount
    + (IF tt.from = GENESIS THEN 0 ELSE 13) + (IF tt.to = "Bob" THEN 17 ELSE 0)

\* Transaction::calculate_hash
Transaction_calculate_hash(tx_type, timestamp, nonce) ==
    Digest(TypeNum(tx_type) + 19 * timestamp + 23 * nonce,
           <<tx_type, timestamp, nonce>>)

\* Transaction::new at clock value t
Transaction_new(tx_type, nonce, t) ==
    [id |-> Transaction_calculate_hash(tx_type, t, nonce),
     tx_type |-> tx_type, timestamp |-> t, nonce |-> nonce]

RECURSIVE TxsNum(_)
TxsNum(txs) ==
    IF txs = <<>> THEN 0
    ELSE Lead(Head(txs).id) + 29 + 3 * TxsNum(Tail(txs))

\* Block::calculate_hash
calculate_hash(b) ==
    Digest(31 * b.index + 41 * b.timestamp + TxsNum(b.transactions)
           + 5 * Lead(b.previous_hash) + 37 * b.nonce,
           <<b.index, b.timestamp, b.transactions, b.previous_hash, b.nonce>>)

\* Block::new with the hash computed before the index is stored.
Block_new_HashBeforeIndex(index, transactions, previous_hash, t) ==
    LET b == [index |-> index, timestamp |-> t, transactions |-> transactions,
              previous_hash |-> previous_hash, hash |-> <<>>, nonce |-> 0]
    IN [b EXCEPT !.hash = calculate_hash([b EXCEPT !.index = 0])]

\* Block::new at clock value t
Block_new(index, transactions, previous_hash, t) ==
    LET b == [index |-> index, timestamp |-> t, transactions |-> transactions,
              previous_hash |-> previous_hash, hash |-> <<>>, nonce |-> 0]
    IN [b EXCEPT !.hash = calculate_hash(b)]

\* mine_block as a do-while loop: one turn before the first test.
RECURSIVE mine_block_DoWhile(_, _)
mine_block_DoWhile(b, d) ==
    LET b1 == [b EXCEPT !.nonce = b.nonce + 1]
        b2 == [b1 EXCEPT !.hash = calculate_hash(b1)]
    IN IF StartsWithZeros(b2.hash, d) THEN b2 ELSE mine_block_DoWhile(b2, d)

\* Block::mine_block
RECURSIVE mine_block(_, _)
mine_block(b, d) ==
    IF StartsWithZeros(b.hash, d) THEN b
    ELSE LET b1 == [b EXCEPT !.nonce = b.nonce + 1]
         IN mine_block([b1 EXCEPT !.hash = calculate_hash(b1)], d)

(* ------------------------------ Transaction ----------------------------- *)

\* is_valid asking for more signatures than required.
is_valid_SignaturesOffByOne(tx, current_time) ==
    LET tt == tx.tx_type IN
    CASE tt.kind = "MultiSig" ->
            IF Len(tt.signatures) <= tt.required_signatures
            THEN <<"InsufficientSignatures", tt.required_signatures,
                   Len(tt.signatures)>>
            ELSE OK
      [] tt.kind = "TimeLocked" ->
            IF current_time < tt.unlock_time
            THEN <<"StillLocked", tt.unlock_time>>
            ELSE OK
      [] OTHER -> OK

\* is_valid keeping a transaction locked at its unlock time.
is_valid_LockedAtUnlockTime(tx, current_time) ==
    LET tt == tx.tx_type IN
    CASE tt.kind = "MultiSig" ->
            IF Len(tt.signatures) < tt.required_signatures
            THEN <<"InsufficientSignatures", tt.required_signatures,
                   Len(tt.signatures)>>
            ELSE OK
      [] tt.kind = "TimeLocked" ->
            IF current_time <= tt.unlock_time
            THEN <<"StillLocked", tt.unlock_time>>
            ELSE OK
      [] OTHER -> OK

\* Transaction::is_valid
is_valid(tx, current_time) ==
    LET tt == tx.tx_type IN
    CASE tt.kind = "MultiSig" ->
            IF Len(tt.signatures) < tt.required_signatures
            THEN <<"InsufficientSignatures", tt.required_signatures,
                   Len(tt.signatures)>>
            ELSE OK
      [] tt.kind = "TimeLocked" ->
            IF current_time < tt.unlock_time
            THEN <<"StillLocked", tt.unlock_time>>
            ELSE OK
      [] OTHER -> OK

(* ------------------------------- Blockchain ----------------------------- *)

\* Blockchain::get_balance, and balances.get(a).unwrap_or(&0.0)
get_balance(bal, a) == IF a \in DOMAIN bal THEN bal[a] ELSE 0

\* *bal.entry(a).or_insert(0.0) += delta
EntryAdd(bal, a, delta) ==
    [k \in (DOMAIN bal) \cup {a} |-> IF k = a THEN get_balance(bal, a) + delta
                                     ELSE bal[k]]

\* create_genesis_block that pushes the genesis block without mining it.
create_genesis_block_Unmined(d, t) ==
    Block_new(0, <<Transaction_new(Standard(GENESIS, GENESIS, 0), 0, t)>>, <<0>>, t)

\* Blockchain::create_genesis_block at clock value t
create_genesis_block(d, t) ==
    LET genesis_transaction == Transaction_new(Standard(GENESIS, GENESIS, 0), 0, t)
    IN mine_block(Block_new(0, <<genesis_transaction>>, <<0>>, t), d)

\* add_transaction rejecting a sender whose balance equals the amount.
add_transaction_result_StrictBalance(bal, tx, current_time) ==
    LET v == is_valid(tx, current_time)
        from == tx.tx_type.from
    IN IF v # OK THEN v
       ELSE IF from # GENESIS /\ get_balance(bal, from) <= tx.tx_type.amount
            THEN <<"InsufficientBalance", from, get_balance(bal, from)>>
            ELSE OK

RECURSIVE Reserved(_, _)
Reserved(txs, a) ==
    IF txs = <<>> THEN 0
    ELSE (IF Head(txs).tx_type.from = a THEN Head(txs).tx_type.amount ELSE 0)
         + Reserved(Tail(txs), a)

\* add_transaction checking the balance left by the sender's pending transactions.
add_transaction_result_Reserving(bal, tx, current_time) ==
    LET v == is_valid(tx, current_time)
        from == tx.tx_type.from
        free == get_balance(bal, from) - Reserved(pending_transactions, from)
    IN IF v # OK THEN v
       ELSE IF from # GENESIS /\ free < tx.tx_type.amount
            THEN <<"InsufficientBalance", from, free>>
            ELSE OK

\* add_transaction taking only the signatures of the sender's registered
\* signers.
add_transaction_result_RegisteredSigners(bal, tx, current_time) ==
    LET tt == tx.tx_type
        from == tt.from
        registered == IF from \in DOMAIN multisig_wallets
                      THEN {multisig_wallets[from][k] :
                              k \in 1..Len(multisig_wallets[from])}
                      ELSE {}
        counted == IF tt.kind = "MultiSig"
                   THEN Cardinality({k \in 1..Len(tt.signatures) :
                                       tt.signatures[k] \in registered})
                   ELSE 0
    IN IF tt.kind = "MultiSig" /\ counted < tt.required_signatures
       THEN <<"InsufficientSignatures", tt.required_signatures, counted>>
       ELSE IF is_valid(tx, current_time) # OK THEN is_valid(tx, current_time)
       ELSE IF from # GENESIS /\ get_balance(bal, from) < tt.amount
            THEN <<"InsufficientBalance", from, get_balance(bal, from)>>
            ELSE OK

\* add_transaction checking the balance before validating the transaction.
add_transaction_result_BalanceFirst(bal, tx, current_time) ==
    LET v == is_valid(tx, current_time)
        from == tx.tx_type.from
    IN IF from # GENESIS /\ get_balance(bal, from) < tx.tx_type.amount
       THEN <<"InsufficientBalance", from, get_balance(bal, from)>>
       ELSE v

\* The result of Blockchain::add_transaction
add_transaction_result(bal, tx, current_time) ==
    LET v == is_valid(tx, current_time)
        from == tx.tx_type.from
    IN IF v # OK THEN v
       ELSE IF from # GENESIS /\ get_balance(bal, from) < tx.tx_type.amount
            THEN <<"InsufficientBalance", from, get_balance(bal, from)>>
            ELSE OK

\* The balance update without the debit.
ApplyTx_NoDebit(bal, tx) == EntryAdd(bal, tx.tx_type.to, tx.tx_type.amount)

\* The balance update debiting the genesis sentinel like any sender.
ApplyTx_DebitGenesis(bal, tx) ==
    EntryAdd(EntryAdd(bal, tx.tx_type.from, -tx.tx_type.amount),
             tx.tx_type.to, tx.tx_type.amount)

\* One turn of the balance update loop of mine_pending_transactions
ApplyTx(bal, tx) ==
    LET tt == tx.tx_type
        debited == IF tt.from # GENESIS THEN EntryAdd(bal, tt.from, -tt.amount)
                   ELSE bal
    IN EntryAdd(debited, tt.to, tt.amount)

\* The balance update loop of mine_pending_transactions
RECURSIVE UpdateBalances(_, _)
UpdateBalances(bal, txs) ==
    IF txs = <<>> THEN bal
    ELSE UpdateBalances(ApplyTx(bal, Head(txs)), Tail(txs))

\* is_chain_valid without the hash integrity check.
RECURSIVE ChainValidFrom_NoIntegrity(_, _, _)
ChainValidFrom_NoIntegrity(c, d, i) ==
    IF i > Len(c) THEN TRUE
    ELSE IF c[i].previous_hash # c[i - 1].hash THEN FALSE
    ELSE IF ~StartsWithZeros(c[i].hash, d) THEN FALSE
    ELSE ChainValidFrom_NoIntegrity(c, d, i + 1)

\* Blockchain::is_chain_valid, the loop from index i - 1 on (sequences start at 1)
RECURSIVE ChainValidFrom(_, _, _)
ChainValidFrom(c, d, i) ==
    IF i > Len(c) THEN TRUE
    ELSE LET current_block == c[i]
             previous_block == c[i - 1]
         IN IF current_block.hash # calculate_hash(current_block) THEN FALSE
            ELSE IF current_block.previous_hash # previous_block.hash THEN FALSE
            ELSE IF ~StartsWithZeros(current_block.hash, d) THEN FALSE
            ELSE ChainValidFrom(c, d, i + 1)

\* is_chain_valid checking the genesis block's hash and proof of work too.
is_chain_valid_CheckGenesis(c, d) ==
    /\ c[1].hash = calculate_hash(c[1])
    /\ StartsWithZeros(c[1].hash, d)
    /\ ChainValidFrom(c, d, 2)

is_chain_valid(c, d) == ChainValidFrom(c, d, 2)

(* -------------------------------- actions ------------------------------- *)

Call(op, res) == [op |-> op, res |-> res]

\* Blockchain::new
Init ==
    /\ now = 0
    /\ difficulty \in Difficulties
    /\ chain = <<create_genesis_block(difficulty, 0)>>
    /\ pending_transactions = <<>>
    /\ balances = <<>>
    /\ multisig_wallets = <<>>
    /\ last = Call("new", OK)

\* Transactions accepted so far: the mined ones and the pending ones.
RECURSIVE Mined(_, _)
Mined(c, i) == IF i > Len(c) THEN 0 ELSE Len(c[i].transactions) + Mined(c, i + 1)

Accepted == Mined(chain, 2) + Len(pending_transactions)

\* The clock advances between calls.
Tick ==
    /\ now < MaxTime
    /\ now' = now + 1
    /\ UNCHANGED <<chain, difficulty, pending_transactions, balances,
                   multisig_wallets, last>>

\* add_transaction pushing the transaction before it is checked.
SubmitTx_PushBeforeCheck(tt, n) ==
    LET tx == Transaction_new(tt, n, now)
        res == add_transaction_result(balances, tx, now)
    IN /\ Accepted < MaxTxs
       /\ pending_transactions' = Append(pending_transactions, tx)
       /\ last' = Call("add_transaction", res)
       /\ UNCHANGED <<chain, difficulty, balances, multisig_wallets, now>>

\* add_transaction applying an accepted transaction to the balances at once.
SubmitTx_AppliesOnAccept(tt, n) ==
    LET tx == Transaction_new(tt, n, now)
        res == add_transaction_result(balances, tx, now)
    IN /\ res = OK => Accepted < MaxTxs
       /\ pending_transactions' =
              IF res = OK THEN Append(pending_transactions, tx)
              ELSE pending_transactions
       /\ balances' = IF res = OK THEN ApplyTx(balances, tx) ELSE balances
       /\ last' = Call("add_transaction", res)
       /\ UNCHANGED <<chain, difficulty, multisig_wallets, now>>

\* Transaction::new(tt, n) followed by Blockchain::add_transaction
SubmitTx(tt, n) ==
    LET tx == Transaction_new(tt, n, now)
        res == add_transaction_result(balances, tx, now)
    IN /\ res = OK => Accepted < MaxTxs
       /\ pending_transactions' =
              IF res = OK THEN Append(pending_transactions, tx)
              ELSE pending_transactions
       /\ last' = Call("add_transaction", res)
       /\ UNCHANGED <<chain, difficulty, balances, multisig_wallets, now>>

Submit == \E tt \in TransactionTypes, n \in TxNonces : SubmitTx(tt, n)

\* mine_pending_transactions storing the new block over the tip.
Mine_OverwriteTip ==
    /\ IF pending_transactions = <<>>
       THEN UNCHANGED <<chain, balances, pending_transactions>>
       ELSE LET previous_hash == chain[Len(chain)].hash
                index == Len(chain)
                block == mine_block(Block_new(index, pending_transactions,
                                              previous_hash, now), difficulty)
            IN /\ balances' = UpdateBalances(balances, block.transactions)
               /\ chain' = [chain EXCEPT ![Len(chain)] = block]
               /\ pending_transactions' = <<>>
    /\ last' = Call("mine_pending_transactions", OK)
    /\ UNCHANGED <<difficulty, multisig_wallets, now>>

\* mine_pending_transactions without the early return on an empty pool.
Mine_EmptyBlock ==
    /\ LET previous_hash == chain[Len(chain)].hash
           index == Len(chain)
           block == mine_block(Block_new(index, pending_transactions,
                                         previous_hash, now), difficulty)
       IN /\ balances' = UpdateBalances(balances, block.transactions)
          /\ chain' = Append(chain, block)
          /\ pending_transactions' = <<>>
    /\ last' = Call("mine_pending_transactions", OK)
    /\ UNCHANGED <<difficulty, multisig_wallets, now>>

\* mine_pending_transactions linking the new block to the genesis block.
Mine_LinksToGenesis ==
    /\ IF pending_transactions = <<>>
       THEN UNCHANGED <<chain, balances, pending_transactions>>
       ELSE LET previous_hash == chain[1].hash
                index == Len(chain)
                block == mine_block(Block_new(index, pending_transactions,
                                              previous_hash, now), difficulty)
            IN /\ balances' = UpdateBalances(balances, block.transactions)
               /\ chain' = Append(chain, block)
               /\ pending_transactions' = <<>>
    /\ last' = Call("mine_pending_transactions", OK)
    /\ UNCHANGED <<difficulty, multisig_wallets, now>>

\* mine_pending_transactions that does not clear the pool.
Mine_KeepsPool ==
    /\ IF pending_transactions = <<>>
       THEN UNCHANGED <<chain, balances, pending_transactions>>
       ELSE LET previous_hash == chain[Len(chain)].hash
                index == Len(chain)
                block == mine_block(Block_new(index, pending_transactions,
                                              previous_hash, now), difficulty)
            IN /\ balances' = UpdateBalances(balances, block.transactions)
               /\ chain' = Append(chain, block)
               /\ UNCHANGED pending_transactions
    /\ last' = Call("mine_pending_transactions", OK)
    /\ UNCHANGED <<difficulty, multisig_wallets, now>>

\* mine_pending_transactions numbering the blocks from one.
Mine_IndexFromOne ==
    /\ IF pending_transactions = <<>>
       THEN UNCHANGED <<chain, balances, pending_transactions>>
       ELSE LET previous_hash == chain[Len(chain)].hash
                index == Len(chain) + 1
                block == mine_block(Block_new(index, pending_transactions,
                                              previous_hash, now), difficulty)
            IN /\ balances' = UpdateBalances(balances, block.transactions)
               /\ chain' = Append(chain, block)
               /\ pending_transactions' = <<>>
    /\ last' = Call("mine_pending_transactions", OK)
    /\ UNCHANGED <<difficulty, multisig_wallets, now>>

\* Blockchain::mine_pending_transactions
Mine ==
    /\ IF pending_transactions = <<>>
       THEN UNCHANGED <<chain, balances, pending_transactions>>
       ELSE LET previous_hash == chain[Len(chain)].hash
                index == Len(chain)
                block == mine_block(Block_new(index, pending_transactions,
                                              previous_hash, now), difficulty)
            IN /\ balances' = UpdateBalances(balances, block.transactions)
               /\ chain' = Append(chain, block)
               /\ pending_transactions' = <<>>
    /\ last' = Call("mine_pending_transactions", OK)
    /\ UNCHANGED <<difficulty, multisig_wallets, now>>

\* Blockchain::create_multisig_wallet
RegisterMultisig ==
    \E wallet_id \in WalletIds, signers \in WalletSigners :
        /\ multisig_wallets' =
               [k \in (DOMAIN multisig_wallets) \cup {wallet_id} |->
                    IF k = wallet_id THEN signers ELSE multisig_wallets[k]]
        /\ last' = Call("create_multisig_wallet", OK)
        /\ UNCHANGED <<chain, difficulty, pending_transactions, balances, now>>

\* Blockchain::is_chain_valid
VerifyChain ==
    /\ is_chain_valid(chain, difficulty) \in BOOLEAN
    /\ UNCHANGED vars

\* Blockchain::get_balance
BalanceOf ==
    \E a \in Addresses :
        /\ get_balance(balances, a) \in Int
        /\ UNCHANGED vars

Next == Tick \/ Submit \/ Mine \/ RegisterMultisig \/ VerifyChain \/ BalanceOf

Spec == Init /\ [][Next]_vars

(* ------------------------- vocabulary of the claims --------------------- *)

\* The number of leading '0' characters among the hex digits of a digest.
LeadingZeros(h) ==
    IF Len(h) >= 1 /\ h[1] = 0
    THEN (IF Len(h) >= 2 /\ h[2] = 0 THEN 2 ELSE 1)
    ELSE 0

\* The genesis sentinel value of previous_hash, the string "0".
SentinelHash == <<0>>

Tip == chain[Len(chain)]

\* A mining step: the only step that changes the chain.
MineStep == chain' # chain

\* The balance of address a in the map bal, 0 for an address not in it.
BalanceIn(bal, a) == IF a \in DOMAIN bal THEN bal[a] ELSE 0

\* The sum of the amounts of the transactions of txs sent to a.
RECURSIVE Credits(_, _)
Credits(txs, a) ==
    IF txs = <<>> THEN 0
    ELSE (IF Head(txs).tx_type.to = a THEN Head(txs).tx_type.amount ELSE 0)
         + Credits(Tail(txs), a)

\* The sum of the amounts of the transactions of txs sent by a, none for
\* the genesis sentinel.
RECURSIVE Debits(_, _)
Debits(txs, a) ==
    IF txs = <<>> \/ a = GENESIS THEN 0
    ELSE (IF Head(txs).tx_type.from = a THEN Head(txs).tx_type.amount ELSE 0)
         + Debits(Tail(txs), a)

\* The sum of the amounts of the transactions of txs sent by the sentinel.
RECURSIVE Minted(_)
Minted(txs) ==
    IF txs = <<>> THEN 0
    ELSE (IF Head(txs).tx_type.from = GENESIS THEN Head(txs).tx_type.amount ELSE 0)
         + Minted(Tail(txs))

\* The sum of all balances of the map bal.
RECURSIVE SumOver(_, _)
SumOver(bal, keys) ==
    IF keys = {} THEN 0
    ELSE LET k == CHOOSE x \in keys : TRUE
         IN bal[k] + SumOver(bal, keys \ {k})

Total(bal) == SumOver(bal, DOMAIN bal)

\* The submitted transaction type passes validate at time t.
Passes(tt, t) ==
    /\ tt.kind = "MultiSig" => Len(tt.signatures) >= tt.required_signatures
    /\ tt.kind = "TimeLocked" => t >= tt.unlock_time

\* A submit step that accepted tt: Ok returned, tt at the tail of the pool.
AcceptedStep(tt) ==
    /\ last'.res = OK
    /\ Len(pending_transactions') = Len(pending_transactions) + 1
    /\ pending_transactions'[Len(pending_transactions')].tx_type = tt

\* A submit step that rejected with error e: the pool is as before.
RejectedStep(e) ==
    /\ last'.res = e
    /\ pending_transactions' = pending_transactions

\* The outcome the balance check alone gives a submit of tt.
BalanceDecides(tt) ==
    IF tt.from = GENESIS \/ BalanceIn(balances, tt.from) >= tt.amount
    THEN AcceptedStep(tt)
    ELSE RejectedStep(<<"InsufficientBalance", tt.from,
                        BalanceIn(balances, tt.from)>>)

\* Every balance after a mining step is the balance before it, plus the
\* pool's credits to the address, minus the pool's debits from it.
PoolApplied ==
    \A a \in Addresses \cup DOMAIN balances \cup DOMAIN balances' :
        BalanceIn(balances', a) =
            BalanceIn(balances, a) + Credits(pending_transactions, a)
            - Debits(pending_transactions, a)

(* ---------------------------------- C1 ---------------------------------- *)

\* C1: after any sequence of submit, mine_pending and register_multisig
\* calls, verify_chain() is true: every block i >= 1 stores its recomputed
\* hash, links to the stored hash of block i-1 and has at least difficulty
\* leading zero hex characters.
C1_ChainVerifies ==
    /\ is_chain_valid(chain, difficulty) = TRUE
    /\ \A i \in 2..Len(chain) :
          /\ chain[i].hash = calculate_hash(chain[i])
          /\ chain[i].previous_hash = chain[i - 1].hash
          /\ LeadingZeros(chain[i].hash) >= difficulty

\* Two mined blocks under difficulty 1, the second found by a real search,
\* with a wallet registered and a rejected submit on the way.
C1_Witness ==
    /\ Len(chain) = 3
    /\ difficulty = 1
    /\ chain[3].nonce > 0
    /\ DOMAIN multisig_wallets # {}
    /\ last.op = "add_transaction"
    /\ last.res # OK

(* ---------------------------------- C2 ---------------------------------- *)

\* C2: right after create(d), for every d: one block, of index 0, whose
\* previous_hash is the sentinel "0" and whose hash has at least d leading
\* zeros; pool, balances and registry are empty; verify_chain() is true.
C2_AfterCreate ==
    last.op = "new" =>
        /\ Len(chain) = 1
        /\ chain[1].index = 0
        /\ chain[1].previous_hash = SentinelHash
        /\ LeadingZeros(chain[1].hash) >= difficulty
        /\ pending_transactions = <<>>
        /\ DOMAIN balances = {}
        /\ DOMAIN multisig_wallets = {}
        /\ is_chain_valid(chain, difficulty) = TRUE

\* A Ledger just created with difficulty 1 whose genesis block needed a search.
C2_Witness ==
    /\ last.op = "new"
    /\ difficulty = 1
    /\ chain[1].nonce > 0

(* ---------------------------------- C3 ---------------------------------- *)

BlockFields == {"index", "timestamp", "transactions", "previous_hash", "hash",
                "nonce"}

\* Other values of field f for block c[i].
TamperValues(c, i, f) ==
    CASE f = "index" -> 0..(Len(c) + 1)
      [] f = "timestamp" -> 0..(MaxTime + 1)
      [] f = "transactions" ->
            {<<>>, Tail(c[i].transactions), c[1].transactions,
             c[i].transactions \o c[i].transactions,
             [c[i].transactions EXCEPT ![1].tx_type.amount = @ + 1],
             [c[i].transactions EXCEPT ![1].tx_type.to = "Mallory"]}
      [] f = "previous_hash" ->
            {SentinelHash, calculate_hash([c[i - 1] EXCEPT !.nonce = @ + 1])}
            \cup {c[j].hash : j \in 1..Len(c)}
      [] f = "hash" ->
            {SentinelHash, calculate_hash([c[i] EXCEPT !.nonce = @ + 1]),
             calculate_hash([c[i] EXCEPT !.index = @ + 1])}
            \cup {c[j].hash : j \in 1..Len(c)}
      [] f = "nonce" -> 0..(c[i].nonce + 1)

Tampered(c, i, f, v) == [c EXCEPT ![i][f] = v]

\* C3: in a state where verify_chain() is true, giving any one field of any
\* block i >= 1 a different value, the stored hash left as it is (or, for
\* the field hash, the other fields left as they are), makes verify_chain()
\* false.
C3_TamperDetected ==
    is_chain_valid(chain, difficulty) =>
        \A i \in 2..Len(chain) : \A f \in BlockFields :
            \A v \in TamperValues(chain, i, f) \ {chain[i][f]} :
                ~is_chain_valid(Tampered(chain, i, f, v), difficulty)

\* A verified chain of three blocks under difficulty 0 (no help from the
\* proof-of-work check) whose middle block has a tampered form.
C3_Witness ==
    /\ Len(chain) = 3
    /\ difficulty = 0
    /\ is_chain_valid(chain, difficulty)
    /\ ~is_chain_valid(Tampered(chain, 2, "nonce", chain[2].nonce + 1), difficulty)

(* ---------------------------------- C4 ---------------------------------- *)

\* C4: each mining step changes the sum of all balances by exactly the sum
\* of the amounts the mined block's transactions send from the genesis
\* sentinel; a block of transfers between other addresses leaves it as it is.
C4_Conservation ==
    [][MineStep =>
          LET block == chain'[Len(chain')] IN
          /\ Total(balances') - Total(balances) = Minted(block.transactions)
          /\ Minted(block.transactions) = 0 => Total(balances') = Total(balances)
      ]_vars

\* A mined block holding a transaction from the sentinel and one from
\* another sender.
C4_Witness ==
    /\ Len(chain) >= 2
    /\ last.op = "mine_pending_transactions"
    /\ \E j, k \in 1..Len(Tip.transactions) :
          /\ Tip.transactions[j].tx_type.from = GENESIS
          /\ Tip.transactions[k].tx_type.from # GENESIS

(* ---------------------------------- C5 ---------------------------------- *)

\* C5: a submit that passes validate and whose sender is not the sentinel
\* is accepted iff the sender's balance in the current map (0 if unseen) is
\* >= the amount, and fails otherwise with InsufficientBalance carrying the
\* address and that balance; a sentinel sender is never rejected for
\* insufficient balance.
C5_BalanceCheck ==
    [][\A tt \in TransactionTypes : \A n \in TxNonces :
          SubmitTx(tt, n) =>
              /\ (Passes(tt, now) /\ tt.from # GENESIS) =>
                    IF BalanceIn(balances, tt.from) >= tt.amount
                    THEN AcceptedStep(tt)
                    ELSE RejectedStep(<<"InsufficientBalance", tt.from,
                                        BalanceIn(balances, tt.from)>>)
              /\ tt.from = GENESIS => last'.res[1] # "InsufficientBalance"
              /\ (Passes(tt, now) /\ tt.from = GENESIS) => AcceptedStep(tt)
      ]_vars

\* A submit rejected for the balance of a sender that stands at -1.
C5_Witness ==
    /\ last.op = "add_transaction"
    /\ last.res = <<"InsufficientBalance", "Alice", -1>>

(* ---------------------------------- C6 ---------------------------------- *)

\* C6: a submit of a MultiSig transaction with fewer signatures than
\* required fails with InsufficientSignatures{required, provided} and adds
\* nothing to the pool; with at least as many, the balance check alone
\* decides. Only the number of signatures counts.
C6_SignatureCount ==
    [][\A tt \in TransactionTypes : \A n \in TxNonces :
          (tt.kind = "MultiSig" /\ SubmitTx(tt, n)) =>
              IF Len(tt.signatures) < tt.required_signatures
              THEN RejectedStep(<<"InsufficientSignatures",
                                  tt.required_signatures, Len(tt.signatures)>>)
              ELSE BalanceDecides(tt)
      ]_vars

\* A MultiSig submit rejected with one signature of the two required.
C6_Witness ==
    /\ last.op = "add_transaction"
    /\ last.res = <<"InsufficientSignatures", 2, 1>>

(* ---------------------------------- C7 ---------------------------------- *)

\* C7: a submit of a TimeLocked transaction at time now fails with
\* StillLocked{unlock_time} iff now < unlock_time; from unlock_time on the
\* balance check alone decides. Mining looks at no lock: every pending
\* transaction goes into the new block and is applied.
C7_TimeLock ==
    [][/\ \A tt \in TransactionTypes : \A n \in TxNonces :
            (tt.kind = "TimeLocked" /\ SubmitTx(tt, n)) =>
                /\ last'.res = <<"StillLocked", tt.unlock_time>>
                      <=> now < tt.unlock_time
                /\ IF now < tt.unlock_time
                   THEN RejectedStep(<<"StillLocked", tt.unlock_time>>)
                   ELSE BalanceDecides(tt)
       /\ MineStep =>
            /\ chain'[Len(chain')].transactions = pending_transactions
            /\ \A k \in 1..Len(pending_transactions) :
                  pending_transactions[k].tx_type.kind = "TimeLocked" => PoolApplied
      ]_vars

\* A TimeLocked submit rejected at time 0 for its unlock time 1.
C7_Witness ==
    /\ last.op = "add_transaction"
    /\ last.res = <<"StillLocked", 1>>
    /\ now = 0

(* ---------------------------------- C8 ---------------------------------- *)

\* C8: a mining step applies the pool to the balances: each address ends
\* with its old balance plus the amounts sent to it minus the amounts it
\* sent (nothing is taken from the sentinel), and the map gains an entry
\* for every recipient and every non-sentinel sender.
C8_MineAppliesPool ==
    [][MineStep =>
          /\ PoolApplied
          /\ DOMAIN balances' =
                DOMAIN balances
                \cup {pending_transactions[k].tx_type.to :
                        k \in 1..Len(pending_transactions)}
                \cup ({pending_transactions[k].tx_type.from :
                         k \in 1..Len(pending_transactions)} \ {GENESIS})
      ]_vars

\* Alice funded with 1 in one block, her transfer of 1 to Bob in the next.
C8_Witness ==
    /\ Len(chain) = 3
    /\ last.op = "mine_pending_transactions"
    /\ chain[2].transactions[1].tx_type.from = GENESIS
    /\ chain[3].transactions[1].tx_type.from = "Alice"
    /\ BalanceIn(balances, "Alice") = 0
    /\ BalanceIn(balances, "Bob") = 1

(* ---------------------------------- C9 ---------------------------------- *)

\* C9: the balance check reserves nothing. A submit that passes validate,
\* from a non-sentinel sender whose balance covers its amount, is accepted
\* also when the sender's pending debits plus the amount exceed the
\* balance; and a mining step whose pool debits a sender by more than the
\* balance and the pool's credits leaves that balance negative.
C9_NoReservation ==
    [][/\ \A tt \in TransactionTypes : \A n \in TxNonces :
            (/\ SubmitTx(tt, n)
             /\ tt.from # GENESIS
             /\ Passes(tt, now)
             /\ tt.amount <= BalanceIn(balances, tt.from)
             /\ Debits(pending_transactions, tt.from) + tt.amount
                  > BalanceIn(balances, tt.from))
            => AcceptedStep(tt)
       /\ MineStep =>
            \A a \in Addresses :
                Debits(pending_transactions, a)
                    > BalanceIn(balances, a) + Credits(pending_transactions, a)
                => /\ BalanceIn(balances', a) < 0
                   /\ BalanceIn(balances', a) =
                        BalanceIn(balances, a) + Credits(pending_transactions, a)
                        - Debits(pending_transactions, a)
      ]_vars

\* Alice, funded with 1, has sent 1 twice in one block and stands at -1.
C9_Witness ==
    /\ last.op = "mine_pending_transactions"
    /\ Len(Tip.transactions) = 2
    /\ \A k \in 1..2 : Tip.transactions[k].tx_type.from = "Alice"
    /\ BalanceIn(balances, "Alice") = -1

(* ---------------------------------- C10 --------------------------------- *)

\* C10: the chain is never empty, and every step keeps the chain it found
\* as an unchanged prefix of the chain it leaves.
C10_AppendOnly ==
    /\ [](Len(chain) >= 1)
    /\ [][/\ Len(chain') >= Len(chain)
           /\ SubSeq(chain', 1, Len(chain)) = chain]_vars

\* Three blocks appended after the genesis block.
C10_Witness ==
    /\ Len(chain) = 4
    /\ last.op = "mine_pending_transactions"
    /\ \A i \in 1..4 : chain[i].index = i - 1

(* ---------------------------------- C11 --------------------------------- *)

\* C11: mine_pending on an empty pool changes nothing: chain, balances,
\* pool, registry and difficulty are as before, no block is created and no
\* error is returned.
C11_EmptyMineNoOp ==
    [][(Mine /\ pending_transactions = <<>>) =>
          /\ UNCHANGED <<chain, balances, pending_transactions,
                         multisig_wallets, difficulty>>
          /\ Len(chain') = Len(chain)
          /\ last'.res = OK
      ]_vars

\* mine_pending called on an untouched Ledger: still the genesis block alone.
C11_Witness ==
    /\ last.op = "mine_pending_transactions"
    /\ last.res = OK
    /\ Len(chain) = 1
    /\ pending_transactions = <<>>
    /\ DOMAIN balances = {}

(* ---------------------------------- C12 --------------------------------- *)

\* The result validate and the balance check give a submit of tt, read from
\* the clock and the balances alone.
ExpectedResult(tt) ==
    IF tt.kind = "MultiSig" /\ Len(tt.signatures) < tt.required_signatures
    THEN <<"InsufficientSignatures", tt.required_signatures, Len(tt.signatures)>>
    ELSE IF tt.kind = "TimeLocked" /\ now < tt.unlock_time
    THEN <<"StillLocked", tt.unlock_time>>
    ELSE IF tt.from # GENESIS /\ BalanceIn(balances, tt.from) < tt.amount
    THEN <<"InsufficientBalance", tt.from, BalanceIn(balances, tt.from)>>
    ELSE OK

\* C12: the registry is advisory. register_multisig sets the entry of
\* wallet_id and changes nothing else; no other call changes the registry;
\* and the outcome of every submit and every mine_pending is a function of
\* chain, pool, balances, difficulty and clock alone, whatever the registry
\* holds (verify_chain and balance_of read only chain, difficulty and
\* balances).
C12_RegistryAdvisory ==
    [][/\ (last'.op = "create_multisig_wallet" /\ now' = now)
            => /\ UNCHANGED <<chain, pending_transactions, balances, difficulty>>
               /\ \E w \in WalletIds : \E sg \in WalletSigners :
                     /\ DOMAIN multisig_wallets' = DOMAIN multisig_wallets \cup {w}
                     /\ multisig_wallets'[w] = sg
                     /\ \A k \in DOMAIN multisig_wallets \ {w} :
                           multisig_wallets'[k] = multisig_wallets[k]
       /\ multisig_wallets' # multisig_wallets
            => /\ last'.op = "create_multisig_wallet"
               /\ UNCHANGED <<chain, pending_transactions, balances, difficulty>>
       /\ \A tt \in TransactionTypes : \A n \in TxNonces :
            SubmitTx(tt, n) =>
                /\ last'.res = ExpectedResult(tt)
                /\ IF ExpectedResult(tt) = OK THEN AcceptedStep(tt)
                   ELSE RejectedStep(ExpectedResult(tt))
                /\ UNCHANGED <<chain, balances, multisig_wallets>>
       /\ MineStep =>
            /\ Len(chain') = Len(chain) + 1
            /\ chain'[Len(chain')].transactions = pending_transactions
            /\ chain'[Len(chain')].previous_hash = Tip.hash
            /\ pending_transactions' = <<>>
            /\ PoolApplied
            /\ UNCHANGED multisig_wallets
      ]_vars

\* A MultiSig transaction signed twice by Mallory has been accepted and
\* mined while the only registered wallet lists Alice and Bob, replacing an
\* earlier entry or not.
C12_Witness ==
    /\ "vault" \in DOMAIN multisig_wallets
    /\ multisig_wallets["vault"] = <<"Alice", "Bob">>
    /\ Len(chain) >= 2
    /\ \E k \in 1..Len(Tip.transactions) :
          /\ Tip.transactions[k].tx_type.kind = "MultiSig"
          /\ Tip.transactions[k].tx_type.signatures = <<"Mallory", "Mallory">>

(* ---------------------------------- C13 --------------------------------- *)

\* The block the next mining step would build from the current state.
NextBlock == Block_new(Len(chain), pending_transactions, Tip.hash, now)

\* C13: when mine(d) completes on a newly built block, the stored hash is
\* the digest of the block's fields and has at least d leading zeros; only
\* nonce and hash have changed, nonce has not decreased, and for d = 0 the
\* block is as built (nonce 0, the hash of construction). Every block of
\* the chain, the genesis block included, stores its digest and meets the
\* Ledger's difficulty.
C13_ProofOfWork ==
    /\ \A d \in Difficulties :
          LET b == NextBlock
              m == mine_block(b, d)
          IN /\ m.hash = calculate_hash(m)
             /\ LeadingZeros(m.hash) >= d
             /\ m.index = b.index
             /\ m.timestamp = b.timestamp
             /\ m.transactions = b.transactions
             /\ m.previous_hash = b.previous_hash
             /\ m.nonce >= b.nonce
             /\ d = 0 => (m.nonce = 0 /\ m.hash = b.hash)
    /\ \A i \in 1..Len(chain) :
          /\ chain[i].hash = calculate_hash(chain[i])
          /\ LeadingZeros(chain[i].hash) >= difficulty
          /\ difficulty = 0 => chain[i].nonce = 0

\* Under difficulty 1, a genesis block and a mined block that both needed
\* a search.
C13_Witness ==
    /\ difficulty = 1
    /\ Len(chain) >= 2
    /\ chain[1].nonce > 0
    /\ chain[2].nonce > 0
    /\ LeadingZeros(chain[2].hash) >= 1

(* ---------------------------------- C14 --------------------------------- *)

\* C14: mine_pending on a non-empty pool appends exactly one block, whose
\* index is the chain length before the call, whose previous_hash is the
\* stored hash of the previous tip and whose transactions are the pool in
\* its order; the pool is empty afterwards.
C14_MineAppendsOneBlock ==
    [][(Mine /\ pending_transactions # <<>>) =>
          /\ Len(chain') = Len(chain) + 1
          /\ SubSeq(chain', 1, Len(chain)) = chain
          /\ chain'[Len(chain')].index = Len(chain)
          /\ chain'[Len(chain')].previous_hash = chain[Len(chain)].hash
          /\ chain'[Len(chain')].transactions = pending_transactions
          /\ pending_transactions' = <<>>
      ]_vars

\* A third block holding two transactions of different senders, mined from
\* a pool that is now empty.
C14_Witness ==
    /\ Len(chain) = 3
    /\ last.op = "mine_pending_transactions"
    /\ pending_transactions = <<>>
    /\ Len(chain[3].transactions) = 2
    /\ chain[3].transactions[1].tx_type.from
         # chain[3].transactions[2].tx_type.from
    /\ chain[3].previous_hash = chain[2].hash

(* ---------------------------------- C15 --------------------------------- *)

ErrorKinds == {"InsufficientSignatures", "StillLocked", "InsufficientBalance"}

\* C15: a submit never changes chain, balances, registry or difficulty; a
\* rejected one (one of the three errors) leaves the pool as it was; an
\* accepted one appends that transaction at the tail of the pool, the
\* earlier ones kept in their order.
C15_SubmitEffect ==
    [][\A tt \in TransactionTypes : \A n \in TxNonces :
          SubmitTx(tt, n) =>
              /\ UNCHANGED <<chain, balances, multisig_wallets, difficulty>>
              /\ last'.res = OK \/ last'.res[1] \in ErrorKinds
              /\ last'.res # OK => pending_transactions' = pending_transactions
              /\ last'.res = OK =>
                    /\ Len(pending_transactions') = Len(pending_transactions) + 1
                    /\ SubSeq(pending_transactions', 1, Len(pending_transactions))
                         = pending_transactions
                    /\ pending_transactions'[Len(pending_transactions')]
                         = Transaction_new(tt, n, now)
      ]_vars

\* A rejected submit that left a pool of two transactions as it was.
C15_Witness ==
    /\ last.op = "add_transaction"
    /\ last.res # OK
    /\ Len(pending_transactions) = 2
    /\ Len(chain) = 2

(* ---------------------------------- C16 --------------------------------- *)

\* C16: validation comes before the balance check and applies to every
\* sender: a MultiSig submit with too few signatures fails with
\* InsufficientSignatures and a TimeLocked submit still locked fails with
\* StillLocked, also when the sender's balance is below the amount (never
\* InsufficientBalance) and also when the sender is the genesis sentinel,
\* whose submits never fail with InsufficientBalance.
C16_ValidationFirst ==
    [][\A tt \in TransactionTypes : \A n \in TxNonces :
          SubmitTx(tt, n) =>
              /\ (tt.kind = "MultiSig"
                  /\ Len(tt.signatures) < tt.required_signatures
                  /\ (tt.from = GENESIS
                      \/ BalanceIn(balances, tt.from) < tt.amount))
                 => /\ last'.res = <<"InsufficientSignatures",
                                     tt.required_signatures, Len(tt.signatures)>>
                    /\ last'.res[1] # "InsufficientBalance"
              /\ (tt.kind = "TimeLocked"
                  /\ now < tt.unlock_time
                  /\ (tt.from = GENESIS
                      \/ BalanceIn(balances, tt.from) < tt.amount))
                 => /\ last'.res = <<"StillLocked", tt.unlock_time>>
                    /\ last'.res[1] # "InsufficientBalance"
              /\ tt.from = GENESIS => last'.res[1] # "InsufficientBalance"
      ]_vars

\* A submit rejected for its signatures while Alice, overdrawn, could pay
\* for no transaction.
C16_Witness ==
    /\ last.op = "add_transaction"
    /\ last.res = <<"InsufficientSignatures", 2, 1>>
    /\ BalanceIn(balances, "Alice") < 0

(* ---------------------------------- C17 --------------------------------- *)

\* Other values of field f for the genesis block of c.
GenesisValues(c, f) ==
    CASE f = "index" -> 0..(Len(c) + 1)
      [] f = "timestamp" -> 0..(MaxTime + 1)
      [] f = "transactions" ->
            {<<>>, c[1].transactions \o c[1].transactions,
             [c[1].transactions EXCEPT ![1].tx_type.amount = @ + 1],
             [c[1].transactions EXCEPT ![1].tx_type.to = "Mallory"]}
      [] f = "previous_hash" ->
            {SentinelHash} \cup {c[j].hash : j \in 1..Len(c)}
      [] f = "hash" ->
            {SentinelHash, calculate_hash([c[1] EXCEPT !.nonce = @ + 1]),
             calculate_hash([c[1] EXCEPT !.index = @ + 1])}
            \cup {c[j].hash : j \in 1..Len(c)}
      [] f = "nonce" -> 0..(c[1].nonce + 1)

\* The chain, and the chain with its tip tampered with (it then fails).
TamperedLater ==
    {chain} \cup {Tampered(chain, i, "nonce", chain[i].nonce + 1) :
                      i \in {Len(chain)} \ {1}}

\* A block that is no genesis block in any of its fields.
JunkBlock ==
    [index |-> 7, timestamp |-> MaxTime + 1, transactions |-> <<>>,
     previous_hash |-> <<15, 15, 7>>, hash |-> <<15, 15, 7>>, nonce |-> 3]

\* C17: verify_chain does not check the genesis block: whatever value its
\* index, timestamp, transactions, previous_hash or nonce is given, the
\* result is the same, on a chain that verifies and on one that does not;
\* another stored hash of the genesis block changes the result only by
\* the linkage check of block 1; a chain of one block always verifies.
C17_GenesisUnchecked ==
    /\ \A c \in TamperedLater : \A f \in BlockFields \ {"hash"} :
          \A v \in GenesisValues(c, f) :
              is_chain_valid(Tampered(c, 1, f, v), difficulty)
                  = is_chain_valid(c, difficulty)
    /\ \A c \in TamperedLater : \A v \in GenesisValues(c, "hash") :
          is_chain_valid(Tampered(c, 1, "hash", v), difficulty)
              = \/ Len(c) = 1
                \/ /\ c[2].previous_hash = v
                   /\ is_chain_valid(c, difficulty)
    /\ Len(chain) = 1 =>
          /\ \A f \in BlockFields : \A v \in GenesisValues(chain, f) :
                is_chain_valid(Tampered(chain, 1, f, v), difficulty)
          /\ is_chain_valid(<<JunkBlock>>, difficulty)

\* Under difficulty 1 a chain of two blocks verifies with the genesis
\* block's nonce changed (its stored hash is then not its digest) and
\* fails with the genesis block's stored hash changed.
C17_Witness ==
    /\ Len(chain) = 2
    /\ difficulty = 1
    /\ LET g == Tampered(chain, 1, "nonce", chain[1].nonce + 1)
       IN /\ g[1].hash # calculate_hash(g[1])
          /\ is_chain_valid(g, difficulty)
    /\ ~is_chain_valid(Tampered(chain, 1, "hash", <<15, 15, 7>>), difficulty)

(* ---------------------------------- C18 --------------------------------- *)

\* The transactions of the blocks c[i], c[i + 1], ... in chain order.
RECURSIVE MinedTxs(_, _)
MinedTxs(c, i) ==
    IF i > Len(c) THEN <<>> ELSE c[i].transactions \o MinedTxs(c, i + 1)

\* The mined transactions of blocks 1.. followed by the pending pool.
Ledger == MinedTxs(chain, 2) \o pending_transactions

\* C18: the transactions of blocks 1.. followed by the pool are the
\* accepted transactions in acceptance order: the sequence is empty after
\* construction, an accepted submit appends its transaction to it, and no
\* other step (a rejected submit, a mine) changes it; a mine puts the
\* whole pool in the last block.
C18_MinedOnceInOrder ==
    /\ (last.op = "new" => Ledger = <<>>)
    /\ [][/\ \A tt \in TransactionTypes : \A n \in TxNonces :
              SubmitTx(tt, n) =>
                  Ledger' = IF last'.res = OK
                            THEN Append(Ledger, Transaction_new(tt, n, now))
                            ELSE Ledger
          /\ last'.op # "add_transaction" => Ledger' = Ledger
          /\ Len(Ledger') \in {Len(Ledger), Len(Ledger) + 1}
          /\ SubSeq(Ledger', 1, Len(Ledger)) = Ledger
          /\ MineStep =>
                /\ chain'[Len(chain')].transactions = pending_transactions
                /\ MinedTxs(chain', 2) = Ledger
                /\ pending_transactions' = <<>>
         ]_vars

\* Three accepted transactions: one in block 1, one in block 2, one pending.
C18_Witness ==
    /\ Len(chain) = 3
    /\ Len(pending_transactions) = 1
    /\ Len(Ledger) = 3
    /\ Ledger[1] = chain[2].transactions[1]
    /\ Ledger[2] = chain[3].transactions[1]
    /\ Ledger[3] = pending_transactions[1]

(* ---------------------------------- C19 --------------------------------- *)

\* The addresses the debit/credit rule touches for the transactions txs.
Touched(txs) ==
    {txs[k].tx_type.to : k \in DOMAIN txs}
    \cup {txs[k].tx_type.from : k \in {j \in DOMAIN txs :
                                          txs[j].tx_type.from # GENESIS}}

\* C19: every balance is the replay of the transactions of blocks 1.. from
\* a ledger of zeros (credits to the address minus debits of it, none for
\* the sentinel); pending transactions and the genesis block's own
\* transaction have no part in it, and no step decreases the sentinel's
\* balance.
C19_BalancesReplay ==
    /\ [](/\ \A a \in Addresses \cup DOMAIN balances \cup {"Mallory"} :
              BalanceIn(balances, a) = Credits(MinedTxs(chain, 2), a)
                                       - Debits(MinedTxs(chain, 2), a)
          /\ balances = UpdateBalances(<<>>, MinedTxs(chain, 2))
          /\ DOMAIN balances = Touched(MinedTxs(chain, 2)))
    /\ [][BalanceIn(balances', GENESIS) >= BalanceIn(balances, GENESIS)]_vars

\* Alice was funded and paid Bob in mined blocks; a further credit to
\* Alice is pending and not in her balance.
C19_Witness ==
    /\ Len(chain) = 3
    /\ Len(pending_transactions) = 1
    /\ pending_transactions[1].tx_type.to = "Alice"
    /\ BalanceIn(balances, "Alice") = 0
    /\ BalanceIn(balances, "Bob") = 1
    /\ GENESIS \notin DOMAIN balances

(* ---------------------------------- C20 --------------------------------- *)

\* C20: in every reachable state block i has index i, the genesis block
\* holds exactly the zero-amount Standard transfer from the sentinel to the
\* sentinel, and every later block holds at least one transaction.
C20_WellFormed ==
    /\ \A i \in 1..Len(chain) : chain[i].index = i - 1
    /\ Len(chain[1].transactions) = 1
    /\ chain[1].transactions[1].tx_type = Standard(GENESIS, GENESIS, 0)
    /\ \A i \in 2..Len(chain) : Len(chain[i].transactions) >= 1

\* Three blocks: the genesis block, a block of two transactions and a
\* block of one.
C20_Witness ==
    /\ Len(chain) = 3
    /\ Len(chain[2].transactions) = 2
    /\ Len(chain[3].transactions) = 1
    /\ chain[3].index = 2

====
